---- MODULE Spec2Model ----
(***************************************************************************)
(* Model of brownbat's OrderedTypeContainer.inline_str (src/brownbat/C.py) *)
(* and of the container operations of src/brownbat/core.py it relies on.   *)
(*                                                                         *)
(* Strings are sequences of chunks.  A chunk is an indivisible piece of    *)
(* text: a keyword ("struct", "union", "enum"), a blank (" "), one of the  *)
(* characters "*", "(", ")", or an identifier piece ("A", "B", ...).  Every *)
(* string of the model has exactly one chunking, so equality of strings is *)
(* equality of chunk sequences, and str.startswith(keyword) is a test of   *)
(* the first chunk.                                                        *)
(*                                                                         *)
(* Node objects are identified by their object id (1..NumElems); a list    *)
(* holds references to nodes.                                              *)
(***************************************************************************)
EXTENDS Integers, Sequences, FiniteSets, TLC

\* ------------------------------------------------------------------ bounds
\* total number of members over all the struct/unions of the container
MaxMembers == 4
\* number of calls made on the mutable container, or on the Indentation
MaxCalls == 2
\* number of block constructs nested around a container
MaxDepth == 2

\* ------------------------------------------------------------ basic helpers
Range(s) == {s[i] : i \in 1..Len(s)}

RECURSIVE SeqSum(_)
SeqSum(s) == IF s = <<>> THEN 0 ELSE Head(s) + SeqSum(Tail(s))

\* the subsequence of s of the elements that are in keep
RECURSIVE Filter(_, _)
Filter(s, keep) ==
    IF s = <<>> THEN <<>>
    ELSE IF Head(s) \in keep THEN <<Head(s)>> \o Filter(Tail(s), keep)
         ELSE Filter(Tail(s), keep)

\* F applied to the value of x, which is computed once
Bind(F(_), x) == CHOOSE r \in {F(v) : v \in {x}} : TRUE

\* all the orders in which the elements of a finite set can be listed
Orderings(S) ==
    {f \in [1..Cardinality(S) -> S] : \A i, j \in 1..Cardinality(S) : i # j => f[i] # f[j]}

\* ------------------------------------------------------------------ strings
IsSpace(c) == c = " "

\* str.lstrip()
RECURSIVE LStrip(_)
LStrip(s) == IF s # <<>> /\ IsSpace(Head(s)) THEN LStrip(Tail(s)) ELSE s

\* str.rstrip()
RECURSIVE RStrip(_)
RStrip(s) ==
    IF s # <<>> /\ IsSpace(s[Len(s)]) THEN RStrip(SubSeq(s, 1, Len(s) - 1)) ELSE s

\* str.strip()
Strip(s) == RStrip(LStrip(s))

\* str.startswith(prefix), prefix a keyword (one chunk)
StartsWith(s, prefix) == s # <<>> /\ Head(s) = prefix

\* the prefixes tried by the loop "for prefix in ('struct', 'enum', 'union')"
Prefixes == <<"struct", "enum", "union">>

\* C.py 316-319: the first prefix that matches is removed, then lstrip()
RECURSIVE StripPrefix(_, _)
StripPrefix(s, k) ==
    IF k > Len(Prefixes) THEN s
    ELSE IF StartsWith(s, Prefixes[k]) THEN LStrip(Tail(s))
         ELSE StripPrefix(s, k + 1)

\* C.py 307: str.maketrans({char:None for char in '*()'})
transtable == {"*", "(", ")"}

\* str.translate(transtable): the characters of the table are deleted
RECURSIVE Translate(_)
Translate(s) ==
    IF s = <<>> THEN <<>>
    ELSE IF Head(s) \in transtable THEN Translate(Tail(s))
         ELSE <<Head(s)>> \o Translate(Tail(s))

\* -------------------------------------------------------------- the objects
\* the container has one element per name of NamePool; NameOf(i) is the
\* rendered name of the element at position i
NamePool == <<"A", "B", "C">>
NumElems == Len(NamePool)
NameOf(i) == <<NamePool[i]>>

\* the class of the declaration created at position i
DeclClass(i) == IF i % 2 = 1 THEN "Struct" ELSE "Union"

\* member.type.inline_str() of a member declared by value / as a pointer
ByValueText(name) == name
PointerText(name) == name \o <<" ", "*">>

\* references held by a list
ObjRef(i) == [t |-> "obj", id |-> i]
\* CompoundType.forward_decl(): a CompoundTypeForwardDeclaration view of i
forward_decl(i) == [t |-> "fwd", id |-> i]
\* NewLine()
NewLine == [t |-> "nl", id |-> 0]

NoExc == [cls |-> "None", args |-> <<>>]

\* no call has been made on a container
NoCall == [n |-> 0, op |-> "none", index |-> 0, value |-> <<>>, before |-> <<>>,
           exc |-> NoExc, result |-> <<>>]

\* no container has been built
NoContainer == [cls |-> "None", id |-> <<>>, node_classinfo |-> {},
                node_factory |-> "None", node_list |-> <<>>]

\* no render has returned or raised yet
NoRender == [pc |-> "none", emitted |-> <<>>, text |-> <<>>, err |-> NoExc]

VARIABLES
    objs,                   \* object id -> [cls, name, members]: the nodes
    lists,                  \* the list objects: list id -> sequence of refs
    self_node_list,         \* self.node_list (a list id)
    copy_node_list,         \* self_copy.node_list (a list id, 0 before the copy)
    pc,                     \* "idle", "sort", "done", "error"
    type_dict,              \* OrderedDict: sequence of [key, item]
    dependency_dict,        \* item -> sequence of items (by-value)
    weak_dependency_dict,   \* item -> sequence of items (pointers)
    types_to_sort_list,
    sorted_node_list,
    temporary_marked,
    permanently_marked,
    forward_decl_type_set,
    stack,                  \* the active calls of visit()
    ti,                     \* position of the loop "for node in types_to_sort_list"
    exc,                    \* the exception being propagated, or NoExc
    emitted,                \* the element order handed to StmtContainer.inline_str
    err,                    \* the exception that left inline_str, or NoExc
    discovery,              \* the nodes added to forward_decl_type_set, in the order of the adds
    set_iteration,          \* the iteration orders the sets of this process have shown
    indentation_level,      \* Indentation.indentation_level of the caller's idt
    output,                 \* the string inline_str returned
    previous,               \* the outcome of the render before this one, or NoRender
    container,              \* the container the caller mutates, or NoContainer
    call                    \* the last call made on a container, or NoCall

vars == <<objs, lists, self_node_list, copy_node_list, pc, type_dict,
          dependency_dict, weak_dependency_dict, types_to_sort_list,
          sorted_node_list, temporary_marked, permanently_marked,
          forward_decl_type_set, stack, ti, exc, emitted, err,
          discovery, set_iteration, indentation_level, output, previous,
          container, call>>

\* the state of the container that the caller mutates
containerVars == <<container, call>>

\* the state of the ordered container and of its render
orderedVars == <<objs, lists, self_node_list, copy_node_list, pc, type_dict,
                 dependency_dict, weak_dependency_dict, types_to_sort_list,
                 sorted_node_list, temporary_marked, permanently_marked,
                 forward_decl_type_set, stack, ti, exc, emitted, err,
                 discovery, set_iteration, indentation_level, output, previous>>

\* the state outside the locals of inline_str that a step of the sort leaves alone
renderVars == <<set_iteration, indentation_level, output, previous>>

sortVars == <<type_dict, dependency_dict, weak_dependency_dict, types_to_sort_list,
              sorted_node_list, temporary_marked, permanently_marked,
              forward_decl_type_set, stack, ti, exc, emitted, err, discovery>>

Ids == 1..NumElems

IsDecl(o) == o.cls \in {"Struct", "Union"}

\* ------------------------------------------------------- building the input
\* the elements the caller puts in the container: declarations without
\* members yet, and nodes of another class
InitObjs ==
    {o \in [Ids -> [cls : {"Struct", "Union", "Var"}, name : {NameOf(i) : i \in Ids},
                    members : {<<>>}]] :
        \A i \in Ids : /\ o[i].name = NameOf(i)
                       /\ o[i].cls \in {DeclClass(i), "Var"}}

\* OrderedTypeContainer(node_list): NodeContainerBase.__init__ stores the
\* nodes in the order given; level is the level of the Indentation object the
\* caller will render with
OrderedInit(level) ==
    /\ objs \in InitObjs
    /\ lists = << [i \in Ids |-> ObjRef(i)] >>
    /\ self_node_list = 1
    /\ copy_node_list = 0
    /\ pc = "idle"
    /\ type_dict = <<>>
    /\ dependency_dict = [i \in Ids |-> <<>>]
    /\ weak_dependency_dict = [i \in Ids |-> <<>>]
    /\ types_to_sort_list = <<>>
    /\ sorted_node_list = <<>>
    /\ temporary_marked = {}
    /\ permanently_marked = {}
    /\ forward_decl_type_set = {}
    /\ stack = <<>>
    /\ ti = 0
    /\ exc = NoExc
    /\ emitted = <<>>
    /\ err = NoExc
    /\ discovery = <<>>
    /\ set_iteration = {}
    /\ indentation_level = level
    /\ output = <<>>
    /\ previous = NoRender

\* no other container is built
InitAt(level) ==
    /\ OrderedInit(level)
    /\ container = NoContainer
    /\ call = NoCall

\* core.py 163: the level of a new Indentation object
Init == InitAt(0)

IsPointerText(m) == m # <<>> /\ m[Len(m)] = "*"

CountMembers(o) == SeqSum([i \in Ids |-> Len(o[i].members)])

\* NodeContainerBase.append on a struct/union: the member is added last
append(members, member) == Append(members, member)

\* the caller appends a member to a declaration before rendering.  The
\* by-value members of a declaration are appended before its pointer members:
\* the render keeps the two kinds in separate lists (dependency_dict,
\* weak_dependency_dict), so only the order within a kind reaches the sort.
AppendMember ==
    /\ pc = "idle"
    /\ previous = NoRender
    /\ \E i \in Ids, j \in Ids, ptr \in BOOLEAN :
        /\ IsDecl(objs[i])
        /\ CountMembers(objs) < MaxMembers
        /\ ~ptr => \A k \in 1..Len(objs[i].members) : ~IsPointerText(objs[i].members[k])
        /\ objs' = [objs EXCEPT ![i].members =
                      append(@, IF ptr THEN PointerText(NameOf(j)) ELSE ByValueText(NameOf(j)))]
    /\ UNCHANGED <<lists, self_node_list, copy_node_list, pc>>
    /\ UNCHANGED sortVars
    /\ UNCHANGED renderVars
    /\ UNCHANGED containerVars

\* DictSet that keeps the item the key was first assigned
DictSet_FirstWins(td, key, item) ==
    IF \E k \in 1..Len(td) : td[k].key = key THEN td
    ELSE Append(td, [key |-> key, item |-> item])

\* ------------------------------------------------- analysis of the container
\* C.py 296-299: type_dict[item.name.inline_str().strip()] = item.  An
\* OrderedDict keeps the position of a key that is assigned again.
DictSet(td, key, item) ==
    IF \E k \in 1..Len(td) : td[k].key = key
    THEN [k \in 1..Len(td) |-> IF td[k].key = key THEN [key |-> key, item |-> item] ELSE td[k]]
    ELSE Append(td, [key |-> key, item |-> item])

RECURSIVE BuildTypeDict(_, _, _)
BuildTypeDict(list, o, td) ==
    IF list = <<>> THEN td
    ELSE LET item == Head(list).id
         IN  IF IsDecl(o[item])
             THEN BuildTypeDict(Tail(list), o, DictSet(td, Strip(o[item].name), item))
             ELSE BuildTypeDict(Tail(list), o, td)

HasKey(td, key) == \E k \in 1..Len(td) : td[k].key = key
Lookup(td, key) == (CHOOSE k \in 1..Len(td) : td[k].key = key)

\* C.py 312-319: the member's type name, without its leading keyword
MemberTypeName(text) == StripPrefix(Strip(text), 1)

\* C.py 334: the type name without '*', '(' and ')'
StrippedMemberTypeName(name) == Strip(Translate(name))

\* Resolve with the exact match recorded as a pointer dependency
Resolve_ExactWeak(td, text) ==
    LET member_type_name == MemberTypeName(text)
        stripped_member_type_name == StrippedMemberTypeName(member_type_name)
    IN  IF HasKey(td, member_type_name)
        THEN [kind |-> "weak", to |-> td[Lookup(td, member_type_name)].item]
        ELSE IF HasKey(td, stripped_member_type_name)
             THEN [kind |-> "weak", to |-> td[Lookup(td, stripped_member_type_name)].item]
             ELSE [kind |-> "none", to |-> 0]

\* Resolve with the pointer match recorded as a by-value dependency
Resolve_PointerStrong(td, text) ==
    LET member_type_name == MemberTypeName(text)
        stripped_member_type_name == StrippedMemberTypeName(member_type_name)
    IN  IF HasKey(td, member_type_name)
        THEN [kind |-> "strong", to |-> td[Lookup(td, member_type_name)].item]
        ELSE IF HasKey(td, stripped_member_type_name)
             THEN [kind |-> "strong", to |-> td[Lookup(td, stripped_member_type_name)].item]
             ELSE [kind |-> "none", to |-> 0]

\* C.py 321-346: the dependency a member creates: "strong" when its type name
\* is a key of type_dict, else "weak" when the stripped name is, else "none"
Resolve(td, text) ==
    LET member_type_name == MemberTypeName(text)
        stripped_member_type_name == StrippedMemberTypeName(member_type_name)
    IN  IF HasKey(td, member_type_name)
        THEN [kind |-> "strong", to |-> td[Lookup(td, member_type_name)].item]
        ELSE IF HasKey(td, stripped_member_type_name)
             THEN [kind |-> "weak", to |-> td[Lookup(td, stripped_member_type_name)].item]
             ELSE [kind |-> "none", to |-> 0]

\* the targets of the members of the given kind, in member order
RECURSIVE DepsOf(_, _, _)
DepsOf(td, members, kind) ==
    IF members = <<>> THEN <<>>
    ELSE LET r == Resolve(td, Head(members))
         IN  (IF r.kind = kind THEN <<r.to>> ELSE <<>>) \o DepsOf(td, Tail(members), kind)

\* the items of type_dict.values()
DictItems(td) == {td[k].item : k \in 1..Len(td)}

\* C.py 303, 327: dependency_dict (a defaultdict: no entry reads as an empty list)
DependencyDict(td, o) ==
    [i \in DOMAIN o |-> IF i \in DictItems(td) THEN DepsOf(td, o[i].members, "strong") ELSE <<>>]

\* C.py 305, 340: weak_dependency_dict
WeakDependencyDict(td, o) ==
    [i \in DOMAIN o |-> IF i \in DictItems(td) THEN DepsOf(td, o[i].members, "weak") ELSE <<>>]

\* Occurrences that lists every declaration, with or without dependencies
Occurrences_All(td, item, members) == <<item>>

\* one occurrence of item per member that created a dependency
RECURSIVE Occurrences(_, _, _)
Occurrences(td, item, members) ==
    IF members = <<>> THEN <<>>
    ELSE (IF Resolve(td, Head(members)).kind # "none" THEN <<item>> ELSE <<>>)
         \o Occurrences(td, item, Tail(members))

\* C.py 301, 330, 343: types_to_sort_list, in the order of type_dict.values()
RECURSIVE TypesToSort(_, _, _)
TypesToSort(td, o, k) ==
    IF k > Len(td) THEN <<>>
    ELSE Occurrences(td, td[k].item, o[td[k].item].members) \o TypesToSort(td, o, k + 1)

\* __copy__ without the copy of node_list: both containers share one list
NodeContainerBase__copy__Shared(heap, node_list) ==
    [heap |-> heap, node_list |-> node_list]

\* core.py 609-616: NodeContainerBase.__copy__ gives the copy a list of its
\* own, with the same nodes
NodeContainerBase__copy__(heap, node_list) ==
    [heap |-> Append(heap, heap[node_list]), node_list |-> Len(heap) + 1]

\* C.py 291-351: the copy, the name map, the dependency graph and the empty
\* sort state
Begin ==
    /\ pc = "idle"
    /\ LET c  == NodeContainerBase__copy__(lists, self_node_list)
           td == BuildTypeDict(lists[self_node_list], objs, <<>>)
       IN  /\ lists' = c.heap
           /\ copy_node_list' = c.node_list
           /\ type_dict' = td
           /\ dependency_dict' = DependencyDict(td, objs)
           /\ weak_dependency_dict' = WeakDependencyDict(td, objs)
           /\ types_to_sort_list' = TypesToSort(td, objs, 1)
    /\ sorted_node_list' = <<>>
    /\ temporary_marked' = {}
    /\ permanently_marked' = {}
    /\ forward_decl_type_set' = {}
    /\ stack' = <<>>
    /\ ti' = 0
    /\ exc' = NoExc
    /\ discovery' = <<>>
    /\ pc' = "sort"
    /\ UNCHANGED <<objs, self_node_list, emitted, err>>
    /\ UNCHANGED renderVars
    /\ UNCHANGED containerVars

\* ------------------------------------------------------ the topological sort
\* the locals of one call of visit(): the node, the number of by-value
\* dependencies (si) and of pointer dependencies (wi) whose visit was started,
\* and the backups taken before the last pointer dependency
NoBackup == [sorted |-> <<>>, temp |-> {}, perm |-> {}, fwd |-> {}]
NewFrame(node) == [node |-> node, si |-> 0, wi |-> 0, bk |-> NoBackup]

Top == stack[Len(stack)]
Pop(st) == SubSeq(st, 1, Len(st) - 1)
ReplaceTop(st, f) == [st EXCEPT ![Len(st)] = f]

\* CycleError with the name of the node in the arguments
CycleError_Named(node) ==
    [cls |-> "ValueError",
     args |-> <<"The dependency graph of compound types is not a DAG, cannot sort the type definitions",
                NamePool[node]>>]

\* C.py 359: the exception raised on an in-progress node
CycleError(node) ==
    [cls |-> "ValueError",
     args |-> <<"The dependency graph of compound types is not a DAG, cannot sort the type definitions">>]

\* VisitEntry without the test of permanently_marked
VisitEntry_NoDoneCheck(node, temp, perm) ==
    IF node \in temp THEN "raise" ELSE "descend"

\* C.py 358-361: what a call of visit(node) starts with
VisitEntry(node, temp, perm) ==
    IF node \in temp THEN "raise"
    ELSE IF node \notin perm THEN "descend"
         ELSE "return"

\* a call visit(node) made when the active calls are base
Call(node, base) ==
    LET e == VisitEntry(node, temporary_marked, permanently_marked)
    IN  /\ exc' = IF e = "raise" THEN CycleError(node) ELSE NoExc
        /\ temporary_marked' =
              IF e = "descend" THEN temporary_marked \cup {node} ELSE temporary_marked
        /\ stack' = IF e = "descend" THEN Append(base, NewFrame(node)) ELSE base

inputVars == <<objs, lists, self_node_list, copy_node_list, type_dict, dependency_dict,
               weak_dependency_dict, types_to_sort_list, emitted, err>>

\* C.py 389-390: for node in types_to_sort_list: visit(node)
TopCall ==
    /\ pc = "sort" /\ exc = NoExc /\ stack = <<>>
    /\ ti < Len(types_to_sort_list)
    /\ ti' = ti + 1
    /\ Call(types_to_sort_list[ti + 1], <<>>)
    /\ UNCHANGED <<pc, sorted_node_list, permanently_marked, forward_decl_type_set, discovery>>
    /\ UNCHANGED inputVars
    /\ UNCHANGED renderVars
    /\ UNCHANGED containerVars

\* C.py 362-363: for dep_node in dependency_dict[node]: visit(dep_node)
StrongCall ==
    /\ pc = "sort" /\ exc = NoExc /\ stack # <<>>
    /\ Top.si < Len(dependency_dict[Top.node])
    /\ Call(dependency_dict[Top.node][Top.si + 1],
            ReplaceTop(stack, [Top EXCEPT !.si = @ + 1]))
    /\ UNCHANGED <<pc, ti, sorted_node_list, permanently_marked, forward_decl_type_set,
                   discovery>>
    /\ UNCHANGED inputVars
    /\ UNCHANGED renderVars
    /\ UNCHANGED containerVars

\* Backup that takes the in-progress marks as they were at the start of the sort
Backup_NoMarks ==
    [sorted |-> sorted_node_list, temp |-> {},
     perm |-> permanently_marked, fwd |-> forward_decl_type_set]

\* C.py 367-370: the backups taken before a pointer dependency is visited
Backup ==
    [sorted |-> sorted_node_list, temp |-> temporary_marked,
     perm |-> permanently_marked, fwd |-> forward_decl_type_set]

\* C.py 364-372: for dep_node in weak_dependency_dict[node]: backup, visit(dep_node)
WeakCall ==
    /\ pc = "sort" /\ exc = NoExc /\ stack # <<>>
    /\ Top.si = Len(dependency_dict[Top.node])
    /\ Top.wi < Len(weak_dependency_dict[Top.node])
    /\ Call(weak_dependency_dict[Top.node][Top.wi + 1],
            ReplaceTop(stack, [Top EXCEPT !.wi = @ + 1, !.bk = Backup]))
    /\ UNCHANGED <<pc, ti, sorted_node_list, permanently_marked, forward_decl_type_set,
                   discovery>>
    /\ UNCHANGED inputVars
    /\ UNCHANGED renderVars
    /\ UNCHANGED containerVars

\* C.py 382-384: the node is done
Return ==
    /\ pc = "sort" /\ exc = NoExc /\ stack # <<>>
    /\ Top.si = Len(dependency_dict[Top.node])
    /\ Top.wi = Len(weak_dependency_dict[Top.node])
    /\ permanently_marked' = permanently_marked \cup {Top.node}
    /\ temporary_marked' = temporary_marked \ {Top.node}
    /\ sorted_node_list' = Append(sorted_node_list, Top.node)
    /\ stack' = Pop(stack)
    /\ UNCHANGED <<pc, ti, exc, forward_decl_type_set, discovery>>
    /\ UNCHANGED inputVars
    /\ UNCHANGED renderVars
    /\ UNCHANGED containerVars

\* the exception leaves a call of visit() that was visiting a by-value
\* dependency (C.py 363 is outside any try)
Propagate ==
    /\ pc = "sort" /\ exc # NoExc /\ stack # <<>>
    /\ Top.wi = 0
    /\ stack' = Pop(stack)
    /\ UNCHANGED <<pc, ti, exc, sorted_node_list, temporary_marked, permanently_marked,
                   forward_decl_type_set, discovery>>
    /\ UNCHANGED inputVars
    /\ UNCHANGED renderVars
    /\ UNCHANGED containerVars

\* CatchForwardDecl that records nothing
CatchForwardDecl_NoAdd(fwd, dep_node, bk) == fwd

\* CatchForwardDecl that records every declaration whose visit is in progress
CatchForwardDecl_InProgress(fwd, dep_node, bk) == fwd \cup bk.temp

\* C.py 375: forward_decl_type_set.add(dep_node)
CatchForwardDecl(fwd, dep_node, bk) == fwd \cup {dep_node}

\* C.py 375: set.add changes the set only when dep_node is not yet in it; the
\* adds that changed the set, in their order
Discover(disc, fwd, dep_node) == IF dep_node \in fwd THEN disc ELSE Append(disc, dep_node)

\* AfterCatchIndex that tries the failed dependency again
AfterCatchIndex_Retry(wi) == wi - 1

\* C.py 364, 374: after the handler the loop goes on with the next dependency
AfterCatchIndex(wi) == wi

\* C.py 374-379: except ValueError, around the visit of a pointer dependency
Catch ==
    /\ pc = "sort" /\ exc # NoExc /\ stack # <<>>
    /\ Top.wi > 0
    /\ forward_decl_type_set' =
          CatchForwardDecl(forward_decl_type_set,
                           weak_dependency_dict[Top.node][Top.wi], Top.bk)
    /\ sorted_node_list' = Top.bk.sorted
    /\ temporary_marked' = Top.bk.temp
    /\ permanently_marked' = Top.bk.perm
    /\ stack' = ReplaceTop(stack, [Top EXCEPT !.wi = AfterCatchIndex(@)])
    /\ discovery' = Discover(discovery, forward_decl_type_set,
                              weak_dependency_dict[Top.node][Top.wi])
    /\ exc' = NoExc
    /\ UNCHANGED <<pc, ti>>
    /\ UNCHANGED inputVars
    /\ UNCHANGED renderVars
    /\ UNCHANGED containerVars

\* the exception leaves the loop of C.py 389-390, and inline_str
Fail ==
    /\ pc = "sort" /\ exc # NoExc /\ stack = <<>>
    /\ pc' = "error"
    /\ err' = exc
    /\ exc' = NoExc
    /\ UNCHANGED <<objs, lists, self_node_list, copy_node_list, type_dict, dependency_dict,
                   weak_dependency_dict, types_to_sort_list, emitted, ti, stack,
                   sorted_node_list, temporary_marked, permanently_marked,
                   forward_decl_type_set, discovery>>
    /\ UNCHANGED renderVars
    /\ UNCHANGED containerVars

\* RemainingNodeList that keeps the sorted declarations too
RemainingNodeList_All(list, sorted) == list

\* ----------------------------------------------------------- the final order
\* C.py 395-396: the elements of self whose id is not in sorted_node_list
RemainingNodeList(list, sorted) ==
    Filter(list, {r \in Range(list) : ~(r.t = "obj" /\ r.id \in Range(sorted))})

\* FinalOrder without the NewLine() node
FinalOrder_NoSeparator(forward_decl_list, sorted, remaining_node_list) ==
    forward_decl_list \o [k \in 1..Len(sorted) |-> ObjRef(sorted[k])] \o remaining_node_list

\* FinalOrder with the forward declarations after the sorted definitions
FinalOrder_ForwardLast(forward_decl_list, sorted, remaining_node_list) ==
    [k \in 1..Len(sorted) |-> ObjRef(sorted[k])] \o forward_decl_list
        \o <<NewLine>> \o remaining_node_list

\* C.py 402: forward_decl_list+sorted_node_list+[NewLine()]+remaining_node_list
FinalOrder(forward_decl_list, sorted, remaining_node_list) ==
    forward_decl_list \o [k \in 1..Len(sorted) |-> ObjRef(sorted[k])]
        \o <<NewLine>> \o remaining_node_list

\* core.py 697-701 with key = slice(None): the list given is not a node, the
\* factory (Expr) wraps its items in a token list, and the slice assignment
\* stores the items of that token list, which are the items of the list
NodeContainerBase__setitem__(heap, node_list, value) ==
    [heap EXCEPT ![node_list] = value]

\* core.py 589-600: the nodes are rendered in the order of node_list
NodeContainerBase_inline_str(heap, node_list) == heap[node_list]

Terminated == pc \in {"done", "error"}

\* ------------------------------------------------------------------ the text
\* the text is a sequence of chunks too: "\n" is the newline, indentation_string
\* one indentation step
\* core.py 146: Indentation.indentation_string
indentation_string == "    "

\* __str__ that repeats the string |level| times
Indentation__str__Abs(level) ==
    [k \in 1..(IF level < 0 THEN 0 - level ELSE level) |-> indentation_string]

\* core.py 182-184: Indentation.__str__
Indentation__str__(level) == [k \in 1..level |-> indentation_string]

\* core.py 174-176: Indentation.indent
indent(self_indentation_level, level) == self_indentation_level + level

\* dedent that leaves the level as it is
dedent_Missing(self_indentation_level, level) == self_indentation_level

\* core.py 178-180: Indentation.dedent
dedent(self_indentation_level, level) == self_indentation_level - level

IsBlank(c) == c \in {" ", indentation_string}

\* core.py 126-131: the position of the last newline of the leading blank part
\* (the first position when there is none)
RECURSIVE last_new_line_pos(_, _, _)
last_new_line_pos(snippet, position, last) ==
    IF position > Len(snippet) THEN last
    ELSE IF snippet[position] = "\n" THEN last_new_line_pos(snippet, position + 1, position)
         ELSE IF IsBlank(snippet[position]) THEN last_new_line_pos(snippet, position + 1, last)
              ELSE last

\* strip_starting_blank_lines that keeps the whole snippet
strip_starting_blank_lines_None(snippet) == snippet

\* core.py 123-133: strip_starting_blank_lines
strip_starting_blank_lines(snippet) ==
    Bind(LAMBDA str : SubSeq(str, last_new_line_pos(str, 1, 1), Len(str)), snippet)

\* core.py 379-390: NodeBase.freestanding_str
NodeBase_freestanding_str(snippet, level) ==
    IF snippet # <<>> THEN <<"\n">> \o Indentation__str__(level) \o snippet ELSE <<>>

\* C.py 796-812: VarDecl.inline_str of a member: the type, then the name of the
\* member (every member is called m), without blank after a star
MemberDecl(type_str) ==
    IF IsPointerText(type_str) THEN type_str \o <<"m">> ELSE type_str \o <<" ", "m">>

\* C.py 784-786: VarDecl.freestanding_str (no side comment)
VarDecl_freestanding_str(decl, level) ==
    <<"\n">> \o Indentation__str__(level) \o decl \o <<";">>

\* core.py 589-597 on the members of a struct/union, before the strip
RECURSIVE MembersText(_, _)
MembersText(members, level) ==
    IF members = <<>> THEN <<>>
    ELSE VarDecl_freestanding_str(MemberDecl(Head(members)), level)
         \o MembersText(Tail(members), level)

\* C.py 263-278: BlockStmt.inline_str of a struct/union; the result is the text
\* and the level the Indentation object is left at
BlockStmt_inline_str(members, level) ==
    LET inner == indent(level, 1)
        body  == strip_starting_blank_lines(MembersText(members, inner))
        after == dedent(inner, 1)
    IN  [text  |-> <<"\n">> \o Indentation__str__(level) \o <<"{">> \o body
                   \o <<"\n">> \o Indentation__str__(after) \o <<"}">>,
         level |-> after]

\* C.py 1110, 1120: the keyword in the format strings of Struct and Union
Keyword(cls) == IF cls = "Struct" THEN "struct" ELSE "union"

\* C.py 987-1004 with auto_typedef: CompoundType.freestanding_str
CompoundType_freestanding_str(o, level) ==
    Bind(LAMBDA block :
            [text  |-> <<"\n", "\n">> \o Indentation__str__(level)
                       \o <<"typedef", " ", Keyword(o.cls), " ">> \o o.name
                       \o block.text \o <<" ">> \o o.name \o <<";">>,
             level |-> block.level],
         BlockStmt_inline_str(o.members, level))

\* C.py 1027-1038 with auto_typedef: CompoundTypeForwardDeclaration.inline_str
CompoundTypeForwardDeclaration_inline_str(o, level) ==
    <<Keyword(o.cls), " ">> \o o.name \o <<";", "\n">> \o Indentation__str__(level)
        \o <<"typedef", " ", Keyword(o.cls), " ">> \o o.name \o <<" ">> \o o.name \o <<";">>

\* C.py 1458-1463: NewLine.inline_str, which is its freestanding_str too
NewLine_inline_str(level) == <<"\n">> \o Indentation__str__(level)

\* node.freestanding_str(idt) of one element of the container
FreestandingStr(ref, o, level) ==
    IF ref.t = "nl" THEN [text |-> NewLine_inline_str(level), level |-> level]
    ELSE IF ref.t = "fwd"
         THEN [text  |-> NodeBase_freestanding_str(
                            CompoundTypeForwardDeclaration_inline_str(o[ref.id], level), level),
               level |-> level]
         ELSE IF IsDecl(o[ref.id]) THEN CompoundType_freestanding_str(o[ref.id], level)
              ELSE [text |-> VarDecl_freestanding_str(o[ref.id].name, level), level |-> level]

\* core.py 594-598: the loop of NodeContainerBase.inline_str (the comment of
\* every node is the phantom node, which prints nothing)
RECURSIVE NodesText(_, _, _)
NodesText(list, o, level) ==
    IF list = <<>> THEN [text |-> <<>>, level |-> level]
    ELSE Bind(LAMBDA first :
                 Bind(LAMBDA rest : [text |-> first.text \o rest.text, level |-> rest.level],
                      NodesText(Tail(list), o, first.level)),
              FreestandingStr(Head(list), o, level))

\* core.py 589-600: the text NodeContainerBase.inline_str returns
NodeContainerBase_text(list, o, level) ==
    Bind(LAMBDA r : [text |-> strip_starting_blank_lines(r.text), level |-> r.level],
         NodesText(list, o, level))

\* a set that iterates in any order every time it is iterated
IterationOrders_Unstable(shown, S) == Orderings(S)

\* C.py 353, 399: forward_decl_type_set is a set of nodes hashed by identity.
\* Its iteration order is any order, and it is the same every time the same
\* nodes are added to an empty set in the same order
IterationOrders(shown, S) ==
    IF \E order \in shown : Range(order) = S
    THEN {order \in shown : Range(order) = S}
    ELSE Orderings(S)

\* C.py 393-405
Finish ==
    /\ pc = "sort" /\ exc = NoExc /\ stack = <<>>
    /\ ti = Len(types_to_sort_list)
    /\ \E order \in IterationOrders(set_iteration, forward_decl_type_set) :
         LET forward_decl_list == [k \in 1..Len(order) |-> forward_decl(order[k])]
             remaining_node_list ==
                 RemainingNodeList(lists[self_node_list], sorted_node_list)
         IN  \E heap \in {NodeContainerBase__setitem__(lists, copy_node_list,
                             FinalOrder(forward_decl_list, sorted_node_list,
                                        remaining_node_list))} :
             \E r \in {NodeContainerBase_text(heap[copy_node_list], objs,
                                              indentation_level)} :
                /\ lists' = heap
                /\ emitted' = NodeContainerBase_inline_str(heap, copy_node_list)
                /\ output' = r.text
                /\ indentation_level' = r.level
                /\ set_iteration' = set_iteration \cup {order}
    /\ pc' = "done"
    /\ UNCHANGED <<objs, self_node_list, copy_node_list, type_dict, dependency_dict,
                   weak_dependency_dict, types_to_sort_list, ti, stack, exc, err,
                   sorted_node_list, temporary_marked, permanently_marked,
                   forward_decl_type_set, discovery, previous>>
    /\ UNCHANGED containerVars

\* the caller, who keeps the container as it is, asks for its text once more:
\* the outcome of the first render is kept for the comparison
RenderAgain ==
    /\ Terminated
    /\ previous = NoRender
    /\ previous' = [pc |-> pc, emitted |-> emitted, text |-> output, err |-> err]
    /\ pc' = "idle"
    /\ emitted' = <<>>
    /\ output' = <<>>
    /\ err' = NoExc
    /\ UNCHANGED <<objs, lists, self_node_list, copy_node_list, type_dict, dependency_dict,
                   weak_dependency_dict, types_to_sort_list, sorted_node_list,
                   temporary_marked, permanently_marked, forward_decl_type_set, stack, ti,
                   exc, discovery, set_iteration, indentation_level>>
    /\ UNCHANGED containerVars

\* one step of inline_str after its first statements
SortStep ==
    \/ TopCall
    \/ StrongCall
    \/ WeakCall
    \/ Return
    \/ Propagate
    \/ Catch
    \/ Fail
    \/ Finish

Next ==
    \/ AppendMember
    \/ Begin
    \/ SortStep

Spec == Init /\ [][Next]_vars

\* a container of declarations rendered twice, at one level of indentation
TwiceInit == InitAt(1) /\ \A i \in Ids : IsDecl(objs[i])

TwiceNext ==
    \/ Next
    \/ RenderAgain

TwiceSpec == TwiceInit /\ [][TwiceNext]_vars

\* a container of declarations only
LiveInit == Init /\ \A i \in Ids : IsDecl(objs[i])

\* inline_str is synchronous code: once called it runs on until it returns
\* or raises
LiveSpec == LiveInit /\ [][Next]_vars /\ WF_vars(SortStep)

\* =================================================== the mutable containers
\* core.py 525-701 (NodeContainerBase) and C.py 116-137, 238-255: a container
\* mutated by the calls of its sequence API, and a second container that is
\* only an operand.
\* ------------------------------------------------------------------ values
\* a str, None, a list of values, and a node object: an instance of the class
\* cls, identified by id, holding the tokens it was built from
Str(s) == [k |-> "str", s |-> s]
None == [k |-> "None"]
List(items) == [k |-> "list", items |-> items]
Node(cls, id, tokens) ==
    [k |-> "node", cls |-> cls, id |-> id, tokens |-> tokens, comment |-> <<>>]


\* the classes of C.py that the model uses, each with its bases
Bases(cls) ==
    CASE cls = "Expr" -> {"Expr", "TokenList", "TokenListABC", "NodeABC"}
      [] cls = "TokenList" -> {"TokenList", "TokenListABC", "NodeABC"}
      [] cls = "StructMember" -> {"StructMember", "Var", "TokenListABC", "NodeABC"}
      [] cls = "StmtContainer" -> {"StmtContainer", "NodeContainer", "NodeABC"}
      [] cls = "TokenListContainer" -> {"TokenListContainer", "NodeContainer", "NodeABC"}
      [] cls = "Struct" -> {"Struct", "StmtContainer", "NodeContainer", "NodeABC"}
      [] cls = "NewLine" -> {"NewLine", "NodeABC"}

\* isinstance(value, classinfo)
isinstance(value, classinfo) ==
    value.k = "node" /\ Bases(value.cls) \cap classinfo # {}

\* core.py 65-81: every node of the model is a NonIterable or not iterable
listify(iterable_or_single_elem) ==
    IF iterable_or_single_elem.k = "None" THEN <<>>
    ELSE IF iterable_or_single_elem.k = "list" THEN iterable_or_single_elem.items
         ELSE <<iterable_or_single_elem>>

ValueError(message) == [cls |-> "ValueError", args |-> <<message>>]
IndexError(message) == [cls |-> "IndexError", args |-> <<message>>]

Returned(result) == [exc |-> NoExc, result |-> result]
Raised(e) == [exc |-> e, result |-> None]

\* C.py 648-671: the strings that one of the regular expressions of Var matches
IsDeclaration(s) == s \notin {"", "1?"}

\* C.py 671-733: Var.__init__(decl), for the class StructMember; the tokens of
\* the new node are those of its name
Var__init__(decl, id) ==
    IF decl.k = "str"
    THEN IF IsDeclaration(decl.s) THEN Returned(Node("StructMember", id, <<decl>>))
         ELSE Raised(ValueError("Cannot parse variable declaration/definition"))
    ELSE IF decl.k = "None" THEN Returned(Node("StructMember", id, <<>>))
    ELSE IF isinstance(decl, {"Var", "TokenListABC"})
         THEN Returned(Node("StructMember", id, decl.tokens))
         ELSE Raised(ValueError("Cannot create a Var from"))

\* the call factory(value), for the factories of the model: the classes Expr,
\* TokenList (core.py 830-836: the tokens are listify(value)) and StructMember,
\* and the builtin str, a factory that does not build nodes
Factory(factory, value, id) ==
    CASE factory = "Expr" -> Returned(Node("Expr", id, listify(value)))
      [] factory = "TokenList" -> Returned(Node("TokenList", id, listify(value)))
      [] factory = "StructMember" -> Var__init__(value, id)
      [] factory = "str" -> Returned(Str("str"))

\* core.py 570-578: make_node_factory_wrapper
node_factory(self, value, id) ==
    Bind(LAMBDA r :
            IF r.exc # NoExc THEN r
            ELSE IF ~isinstance(r.result, {"NodeABC"})
                 THEN Raised(ValueError("The node factory did not give a NodeABC"))
                 ELSE r,
         Factory(self.node_factory, value, id))

\* the coercion that hands every item to the factory
Coerce_Always(self, item, id) == node_factory(self, item, id)

\* core.py 584, 656, 625-626, 698-699: item if isinstance(item,
\* self.node_classinfo) else self.node_factory(item)
Coerce(self, item, id) ==
    IF isinstance(item, self.node_classinfo) THEN Returned(item)
    ELSE node_factory(self, item, id)

\* core.py 583-586, 655-658: the list comprehension over the items; the node
\* built for the item at position j of the call path gets the id path + j
RECURSIVE Typed(_, _, _, _)
Typed(self, items, path, j) ==
    IF items = <<>> THEN Returned(<<>>)
    ELSE Bind(LAMBDA first :
                 IF first.exc # NoExc THEN first
                 ELSE Bind(LAMBDA rest :
                              IF rest.exc # NoExc THEN rest
                              ELSE Returned(<<first.result>> \o rest.result),
                           Typed(self, Tail(items), path, j + 1)),
              Coerce(self, Head(items), Append(path, j)))

\* ------------------------------------------------------------- the methods
\* the outcome of a method: the exception raised if any, the node_list of self
\* after the call, and the object returned
Outcome(e, node_list, result) == [exc |-> e, list |-> node_list, result |-> result]

\* a container, as a value: the reference to the object
AsNode(self) == Node(self.cls, self.id, <<>>)

\* core.py 653-660: NodeContainerBase.__iadd__
NodeContainerBase__iadd__(self, other, path) ==
    Bind(LAMBDA typed_other_list :
            IF typed_other_list.exc # NoExc
            THEN Outcome(typed_other_list.exc, self.node_list, None)
            ELSE Outcome(NoExc, self.node_list \o typed_other_list.result, AsNode(self)),
         Typed(self, listify(other), path, 1))

\* core.py 662-663: NodeContainerBase.append returns nothing
NodeContainerBase_append(self, other, path) ==
    Bind(LAMBDA r : Outcome(r.exc, r.list, None),
         NodeContainerBase__iadd__(self, other, path))

\* core.py 667-668: for other in other_list: self.append(other)
RECURSIVE ExtendLoop(_, _, _, _)
ExtendLoop(self, other_list, path, i) ==
    IF other_list = <<>> THEN Outcome(NoExc, self.node_list, None)
    ELSE Bind(LAMBDA r :
                 IF r.exc # NoExc THEN r
                 ELSE ExtendLoop([self EXCEPT !.node_list = r.list], Tail(other_list),
                                 path, i + 1),
              NodeContainerBase_append(self, Head(other_list), Append(path, i)))

\* core.py 665-668: NodeContainerBase.extend
NodeContainerBase_extend(self, other_list, path) ==
    ExtendLoop(self, listify(other_list), path, 1)

\* list.insert(index, elem): a negative index counts from the end, and an
\* index outside the list inserts at the nearest end
list_insert(list, index, elem) ==
    LET n   == Len(list)
        pos == IF index < 0 THEN (IF index + n < 0 THEN 0 ELSE index + n)
               ELSE (IF index > n THEN n ELSE index)
    IN  SubSeq(list, 1, pos) \o <<elem>> \o SubSeq(list, pos + 1, n)

\* core.py 624-627: for i, elem in enumerate(elem_list)
RECURSIVE InsertLoop(_, _, _, _, _)
InsertLoop(self, index, elem_list, path, i) ==
    IF elem_list = <<>> THEN Outcome(NoExc, self.node_list, None)
    ELSE Bind(LAMBDA elem :
                 IF elem.exc # NoExc THEN Outcome(elem.exc, self.node_list, None)
                 ELSE InsertLoop([self EXCEPT !.node_list =
                                     list_insert(self.node_list, index + i, elem.result)],
                                 index, Tail(elem_list), path, i + 1),
              Coerce(self, Head(elem_list), Append(path, i)))

\* core.py 622-627: NodeContainerBase.insert
NodeContainerBase_insert(self, index, value, path) ==
    InsertLoop(self, index, listify(value), path, 0)

\* iter(value) of a node: the tokens of a token list, the nodes of a container
iter(value, node_list_of) ==
    IF isinstance(value, {"NodeContainer"}) THEN node_list_of[value.id] ELSE value.tokens

\* core.py 697-701 with an integer key
NodeContainerBase__setitem__int(self, key, value, path) ==
    Bind(LAMBDA v :
            IF v.exc # NoExc THEN Outcome(v.exc, self.node_list, None)
            ELSE LET n   == Len(self.node_list)
                     pos == IF key < 0 THEN key + n + 1 ELSE key + 1
                 IN  IF pos < 1 \/ pos > n
                     THEN Outcome(IndexError("list assignment index out of range"),
                                  self.node_list, None)
                     ELSE Outcome(NoExc, [self.node_list EXCEPT ![pos] = v.result], None),
         Coerce(self, value, Append(path, 1)))

\* core.py 697-701 with key = slice(None): the list takes the items that the
\* iteration of the coerced value gives
NodeContainerBase__setitem__slice(self, value, path, node_list_of) ==
    Bind(LAMBDA v :
            IF v.exc # NoExc THEN Outcome(v.exc, self.node_list, None)
            ELSE Outcome(NoExc, iter(v.result, node_list_of), None),
         Coerce(self, value, Append(path, 1)))

\* core.py 618-620: NodeContainerBase.clear
NodeContainerBase_clear(self, path, node_list_of) ==
    NodeContainerBase__setitem__slice(self, List(<<>>), path, node_list_of)

\* core.py 641-642: NodeContainerBase.reverse
NodeContainerBase_reverse(self) ==
    Outcome(NoExc,
            [i \in 1..Len(self.node_list) |-> self.node_list[Len(self.node_list) + 1 - i]],
            None)

\* list * n
RECURSIVE list_mul(_, _)
list_mul(list, n) == IF n <= 0 THEN <<>> ELSE list \o list_mul(list, n - 1)

\* __mul__ that repeats the list of self itself
NodeContainerBase__mul__InPlace(self, other, id) ==
    Outcome(NoExc, list_mul(self.node_list, other),
            [self EXCEPT !.id = id, !.node_list = list_mul(self.node_list, other)])

\* core.py 670-676: NodeContainerBase.__mul__ returns self_copy, a new object
\* (id) of the class of self, with a list of its own
NodeContainerBase__mul__(self, other, id) ==
    Outcome(NoExc, self.node_list,
            [self EXCEPT !.id = id, !.node_list = list_mul(self.node_list, other)])

\* core.py 678-679: NodeContainerBase.__rmul__
NodeContainerBase__rmul__(self, other, id) == NodeContainerBase__mul__(self, other, id)

\* core.py 681-686: NodeContainerBase.__imul__ returns self
NodeContainerBase__imul__(self, other) ==
    Outcome(NoExc, list_mul(self.node_list, other), AsNode(self))

\* core.py 536-587: NodeContainerBase.__init__; the id of the container as a
\* node is id
NodeContainerBase__init__(cls, id, node_list, node_classinfo, factory) ==
    LET self == [cls |-> cls, id |-> id, node_classinfo |-> node_classinfo,
                 node_factory |-> factory, node_list |-> <<>>]
    IN  Bind(LAMBDA typed :
                IF typed.exc # NoExc THEN typed
                ELSE Returned([self EXCEPT !.node_list = typed.result]),
             Typed(self, listify(node_list), id, 1))

\* C.py 129-134: TokenListContainer(node_list)
TokenListContainer(id, node_list) ==
    NodeContainerBase__init__("TokenListContainer", id, node_list, {"TokenList"}, "TokenList")

\* C.py 244-255: StmtContainer(node_list, node_classinfo, node_factory), the
\* empty set and "None" standing for an argument that is not given.  A
\* node_factory that is not given is the first class of node_classinfo
\* (core.py 556-565)
StmtContainer(id, node_list, node_classinfo, factory) ==
    NodeContainerBase__init__("StmtContainer", id, node_list,
        IF node_classinfo = {} THEN {"NodeABC"} ELSE node_classinfo,
        IF factory # "None" THEN factory
        ELSE IF node_classinfo = {} THEN "Expr"
             ELSE CHOOSE cls \in node_classinfo : TRUE)

\* C.py 1115-1116: Struct(name, member_list)
Struct(id, member_list) ==
    NodeContainerBase__init__("Struct", id, member_list, {"StructMember"}, "StructMember")

\* __add__ that builds its result with the operands in the other order
NodeContainer__add__Swapped(self, other, path) ==
    Bind(LAMBDA new :
            IF new.exc # NoExc THEN Outcome(new.exc, self.node_list, None)
            ELSE Outcome(NoExc, self.node_list, new.result),
         TokenListContainer(path, List(<<other, AsNode(self)>>)))

\* C.py 122-124: NodeContainer.__add__
NodeContainer__add__(self, other, path) ==
    Bind(LAMBDA new :
            IF new.exc # NoExc THEN Outcome(new.exc, self.node_list, None)
            ELSE Outcome(NoExc, self.node_list, new.result),
         TokenListContainer(path, List(<<AsNode(self), other>>)))

\* C.py 126-128: NodeContainer.__radd__
NodeContainer__radd__(self, other, path) ==
    Bind(LAMBDA new :
            IF new.exc # NoExc THEN Outcome(new.exc, self.node_list, None)
            ELSE Outcome(NoExc, self.node_list, new.result),
         TokenListContainer(path, List(<<other, AsNode(self)>>)))

\* -------------------------------------------------------- the state machine
\* the objects the caller holds besides the container: an expression and a
\* second container, never mutated
Elem == Node("Expr", <<0, 0>>, <<Str("e")>>)
Other == StmtContainer(<<0>>, List(<<Str("o")>>), {}, "None").result

\* the node lists of the containers that are values
node_list_of == [id \in {Other.id} |-> Other.node_list]

\* the containers the caller builds: the constructions that raise build none
Constructions ==
    {StmtContainer(<<1>>, List(<<Str("a"), Str("b"), Str("c")>>), {}, "None"),
     Struct(<<1>>, List(<<Str("int a"), Str("int b")>>)),
     Struct(<<1>>, List(<<Str("int a"), Str("1?")>>)),
     StmtContainer(<<1>>, List(<<Str("x")>>), {"Struct"}, "Expr"),
     StmtContainer(<<1>>, List(<<Elem>>), {}, "str"),
     StmtContainer(<<1>>, List(<<Str("x")>>), {}, "str")}

ContainerInit ==
    /\ OrderedInit(0)
    /\ \A i \in Ids : objs[i].cls = "Var"
    /\ \E new \in Constructions :
          /\ new.exc = NoExc
          /\ container = new.result
    /\ call = NoCall

\* the values the caller passes
Strings == {Str("x"), Str("1?")}
Sequences == {List(<<Str("p"), Str("q")>>), List(<<Str("p"), Str("1?")>>),
              List(<<Elem, Str("x")>>)}
Values == {Str("x"), None, Elem, AsNode(Other)}
Indexes == {0 - 5, 0 - 1, 0, 1, 7}
Factors == {0, 2}

\* the id path of the nodes that the next call builds
Path == Append(container.id, call.n + 1)

\* the call op(index, value) on the container ends with the outcome r
Called(op, index, value, r) ==
    /\ call.n < MaxCalls
    /\ container' = [container EXCEPT !.node_list = r.list]
    /\ call' = [n |-> call.n + 1, op |-> op, index |-> index, value |-> value,
                before |-> container.node_list, exc |-> r.exc, result |-> r.result]
    /\ UNCHANGED orderedVars

CallAppend ==
    \E value \in Values \cup {List(<<Str("p"), Str("q")>>), List(<<Str("p"), Str("1?")>>)} :
        \E r \in {NodeContainerBase_append(container, value, Path)} :
            Called("append", 0, value, r)

CallIAdd ==
    \E value \in {List(<<Str("p"), Str("q")>>), List(<<Str("p"), Str("1?")>>), AsNode(Other)} :
        \E r \in {NodeContainerBase__iadd__(container, value, Path)} :
            Called("__iadd__", 0, value, r)

CallExtend ==
    \E value \in Sequences :
        \E r \in {NodeContainerBase_extend(container, value, Path)} :
            Called("extend", 0, value, r)

CallInsert ==
    \E index \in Indexes, value \in {List(<<Str("p"), Str("q")>>), List(<<Str("p"), Str("1?")>>)} :
        \E r \in {NodeContainerBase_insert(container, index, value, Path)} :
            Called("insert", index, value, r)

CallSetItem ==
    \E key \in {0 - 1, 7}, value \in Strings :
        \E r \in {NodeContainerBase__setitem__int(container, key, value, Path)} :
            Called("__setitem__", key, value, r)

CallSetSlice ==
    \E value \in {List(<<Str("p"), Str("q")>>), AsNode(Other)} :
        \E r \in {NodeContainerBase__setitem__slice(container, value, Path, node_list_of)} :
            Called("__setitem__[:]", 0, value, r)

CallClear ==
    \E r \in {NodeContainerBase_clear(container, Path, node_list_of)} :
        Called("clear", 0, None, r)

CallReverse ==
    \E r \in {NodeContainerBase_reverse(container)} :
        Called("reverse", 0, None, r)

CallIMul ==
    \E other \in Factors :
        \E r \in {NodeContainerBase__imul__(container, other)} :
            Called("__imul__", other, None, r)

CallMul ==
    \E other \in Factors :
        \E r \in {NodeContainerBase__mul__(container, other, Path)} :
            Called("__mul__", other, None, r)

CallRMul ==
    \E other \in Factors :
        \E r \in {NodeContainerBase__rmul__(container, other, Path)} :
            Called("__rmul__", other, None, r)

CallAdd ==
    \E other \in {Str("x"), AsNode(Other)} :
        \E r \in {NodeContainer__add__(container, other, Path)} :
            Called("__add__", 0, other, r)

CallRAdd ==
    \E other \in {Str("x"), AsNode(Other)} :
        \E r \in {NodeContainer__radd__(container, other, Path)} :
            Called("__radd__", 0, other, r)

ContainerNext ==
    \/ CallAppend
    \/ CallIAdd
    \/ CallExtend
    \/ CallInsert
    \/ CallSetItem
    \/ CallSetSlice
    \/ CallClear
    \/ CallReverse
    \/ CallIMul
    \/ CallMul
    \/ CallRMul
    \/ CallAdd
    \/ CallRAdd

ContainerSpec == ContainerInit /\ [][ContainerNext]_vars

\* ================================================= the render of the values
\* the empty expression and the empty token list that a caller builds
EmptyExpr == Factory("Expr", None, <<0, 1>>).result
EmptyTokenList == Factory("TokenList", None, <<0, 2>>).result

\* the comment of a node is the phantom node (no text), which prints nothing
\* (core.py 511-514), or a Com of one short line (C.py 1396-1441):
\* Com.freestanding_str
Com_freestanding_str(comment, level) ==
    IF comment = <<>> THEN <<>>
    ELSE <<"\n", "\n">> \o Indentation__str__(level) \o <<"/* ">> \o comment \o <<" */">>

\* core.py 975: snippet.replace("\n", "\n" + str(idt))
RECURSIVE replace_new_lines(_, _)
replace_new_lines(snippet, level) ==
    IF snippet = <<>> THEN <<>>
    ELSE (IF Head(snippet) = "\n" THEN <<"\n">> \o Indentation__str__(level)
          ELSE <<Head(snippet)>>)
         \o replace_new_lines(Tail(snippet), level)

\* core.py 848-866 (TokenListBase.inline_str), 971-977
\* (_IndentedTokenListBase.inline_str, for Expr) and 589-600
\* (NodeContainerBase.inline_str); str(token) for a token that is no node
RECURSIVE inline_str(_, _, _), freestanding_str(_, _, _), TokensText(_, _, _),
          FreestandingText(_, _, _)
inline_str(value, level, node_lists) ==
    IF value.k = "str" THEN <<value.s>>
    ELSE IF isinstance(value, {"NodeContainer"})
         THEN strip_starting_blank_lines(
                  FreestandingText(node_lists[value.id], level, node_lists))
         ELSE IF value.cls = "Expr"
              THEN replace_new_lines(TokensText(value.tokens, level, node_lists), level)
              ELSE IF value.cls = "NewLine"
                   THEN <<"\n">> \o Indentation__str__(level)
                   ELSE TokensText(value.tokens, level, node_lists)

\* C.py 167-174 (_Expr.freestanding_str, no side comment), core.py 379-390
\* (NodeBase.freestanding_str, for TokenList), 602-607
\* (NodeContainerBase.freestanding_str) and C.py 1458-1463 (NewLine)
freestanding_str(value, level, node_lists) ==
    IF isinstance(value, {"NodeContainer"})
    THEN strip_starting_blank_lines(
             NodeBase_freestanding_str(inline_str(value, level, node_lists), level))
    ELSE IF value.cls = "Expr"
         THEN <<"\n">> \o Indentation__str__(level)
                  \o inline_str(value, level, node_lists) \o <<";">>
         ELSE IF value.cls = "NewLine"
              THEN inline_str(value, level, node_lists)
              ELSE NodeBase_freestanding_str(inline_str(value, level, node_lists), level)

\* core.py 855-866: the loop over the tokens
TokensText(tokens, level, node_lists) ==
    IF tokens = <<>> THEN <<>>
    ELSE inline_str(Head(tokens), level, node_lists)
         \o TokensText(Tail(tokens), level, node_lists)

\* core.py 593-598: the loop over the nodes, the comment of a node before
\* the node
FreestandingText(nodes, level, node_lists) ==
    IF nodes = <<>> THEN <<>>
    ELSE Com_freestanding_str(Head(nodes).comment, level)
         \o freestanding_str(Head(nodes), level, node_lists)
         \o FreestandingText(Tail(nodes), level, node_lists)

\* the values the caller renders: the container, its elements, and the
\* objects it holds besides
Rendered ==
    {AsNode(container), AsNode(Other), Elem, EmptyExpr, EmptyTokenList,
     Factory("TokenList", Str("x"), <<0, 3>>).result}
        \cup Range(container.node_list)

\* value.inline_str(idt) and value.freestanding_str(idt), idt at the level given
CallFreestandingStr ==
    \E value \in Rendered, level \in {0, 1} :
        \E node_lists \in {[id \in {container.id, Other.id} |->
                               IF id = container.id THEN container.node_list
                               ELSE Other.node_list]} :
            Called("freestanding_str", level, value,
                   Outcome(NoExc, container.node_list,
                           [inline_str |-> inline_str(value, level, node_lists),
                            freestanding_str |-> freestanding_str(value, level, node_lists)]))

\* NewLine(), and Expr('k', comment='note')
ANewLine == Node("NewLine", <<0, 4>>, <<>>)
Commented == [Node("Expr", <<0, 5>>, <<Str("k")>>) EXCEPT !.comment = <<"note">>]

\* containers whose first elements print blank lines or a comment
RenderConstructions ==
    {StmtContainer(<<1>>, List(<<ANewLine, ANewLine, Str("a")>>), {}, "None"),
     StmtContainer(<<1>>, List(<<Commented, Str("a")>>), {}, "None"),
     StmtContainer(<<1>>, List(<<EmptyTokenList, ANewLine, Commented>>), {}, "None")}

\* a container of expressions, token lists and new lines: the render of the
\* other elements is not modelled
RenderInit ==
    /\ OrderedInit(0)
    /\ \A i \in Ids : objs[i].cls = "Var"
    /\ \E new \in Constructions \cup RenderConstructions :
          /\ new.exc = NoExc
          /\ new.result.cls = "StmtContainer"
          /\ container = new.result
    /\ call = NoCall

RenderNext ==
    \/ CallAppend
    \/ CallIMul
    \/ CallFreestandingStr

RenderSpec == RenderInit /\ [][RenderNext]_vars

\* ========================================================= the Indentation
\* the levels an Indentation is built with, and the arguments of indent and
\* dedent
InitialLevels == {0 - 1, 0, 1, 2}
Steps == {1, 2, 3}

\* the last call made on the Indentation: its name (op) and argument (index),
\* the level before it (before), str(idt) after it (result), and in value the
\* level the object was built with (initial), the sum of the indents minus
\* the sum of the dedents since (total), and the call before the last one
\* with the level before that one (last)
IndentationCall(n, op, level, before, result, initial, total, last) ==
    [n |-> n, op |-> op, index |-> level, before |-> before, exc |-> NoExc,
     result |-> result,
     value |-> [initial |-> initial, total |-> total, last |-> last]]

\* core.py 163-172: Indentation(level)
IndentationInit ==
    /\ \E level \in InitialLevels :
          /\ OrderedInit(level)
          /\ call = IndentationCall(0, "__init__", level, level,
                                    Indentation__str__(level), level, 0,
                                    [op |-> "none", index |-> 0, before |-> level])
    /\ \A i \in Ids : objs[i].cls = "Var"
    /\ container = NoContainer

\* the state that a call on the Indentation leaves alone
indentationFrame ==
    <<objs, lists, self_node_list, copy_node_list, pc, type_dict,
      dependency_dict, weak_dependency_dict, types_to_sort_list,
      sorted_node_list, temporary_marked, permanently_marked,
      forward_decl_type_set, stack, ti, exc, emitted, err,
      discovery, set_iteration, output, previous, container>>

\* core.py 174-176: idt.indent(level), then str(idt)
CallIndent ==
    /\ call.n < MaxCalls
    /\ \E level \in Steps :
          /\ indentation_level' = indent(indentation_level, level)
          /\ call' = IndentationCall(call.n + 1, "indent", level, indentation_level,
                                     Indentation__str__(indentation_level'),
                                     call.value.initial, call.value.total + level,
                                     [op |-> call.op, index |-> call.index,
                                      before |-> call.before])
    /\ UNCHANGED indentationFrame

\* core.py 178-180: idt.dedent(level), then str(idt)
CallDedent ==
    /\ call.n < MaxCalls
    /\ \E level \in Steps :
          /\ indentation_level' = dedent(indentation_level, level)
          /\ call' = IndentationCall(call.n + 1, "dedent", level, indentation_level,
                                     Indentation__str__(indentation_level'),
                                     call.value.initial, call.value.total - level,
                                     [op |-> call.op, index |-> call.index,
                                      before |-> call.before])
    /\ UNCHANGED indentationFrame

IndentationNext ==
    \/ CallIndent
    \/ CallDedent

IndentationSpec == IndentationInit /\ [][IndentationNext]_vars

\* ===================================================================== claims
\* vocabulary of the claims, read off the container the caller built (not off
\* the dictionaries the render computes)
Decls == {i \in Ids : IsDecl(objs[i])}

\* x has a member whose type is, by value, the declared struct/union y
ByValueMember(x, y) ==
    /\ x \in Decls /\ y \in Decls
    /\ \E k \in 1..Len(objs[x].members) : objs[x].members[k] = objs[y].name

\* x has a member whose type is a pointer to the declared struct/union y
PointerMember(x, y) ==
    /\ x \in Decls /\ y \in Decls
    /\ \E k \in 1..Len(objs[x].members) : objs[x].members[k] = objs[y].name \o <<" ", "*">>

AnyMember(x, y) == ByValueMember(x, y) \/ PointerMember(x, y)

HasEdge(i) == \E j \in Ids : AnyMember(i, j) \/ AnyMember(j, i)

\* a path of by-value edges from x to y whose inner nodes are all <= k
RECURSIVE StrongPath(_, _, _)
StrongPath(x, y, k) ==
    IF k = 0 THEN ByValueMember(x, y)
    ELSE \/ StrongPath(x, y, k - 1)
         \/ StrongPath(x, k, k - 1) /\ StrongPath(k, y, k - 1)

\* a path of edges of any kind from x to y whose inner nodes are all <= k
RECURSIVE AnyPath(_, _, _)
AnyPath(x, y, k) ==
    IF k = 0 THEN AnyMember(x, y)
    ELSE \/ AnyPath(x, y, k - 1)
         \/ AnyPath(x, k, k - 1) /\ AnyPath(k, y, k - 1)

StrongCycle == \E x \in Ids : StrongPath(x, x, NumElems)

\* the declarations that lie on a cycle of by-value edges
OnStrongCycle == {x \in Ids : StrongPath(x, x, NumElems)}

\* positions of a reference in the emitted order
At(ref) == {k \in 1..Len(emitted) : emitted[k] = ref}

\* the full definition of y is emitted before the full definition of x
DefBefore(y, x) == \E ky \in At(ObjRef(y)), kx \in At(ObjRef(x)) : ky < kx

\* a forward declaration of y is emitted before every full definition
ForwardDeclared(y) ==
    \E k \in At(forward_decl(y)) : \A j \in 1..Len(emitted) : emitted[j].t = "obj" => k < j

\* the container as the caller built it
CallerList == [i \in Ids |-> ObjRef(i)]

\* ------------------------------------------------------------------------ C1
\* C1: on a successful render, for every by-value edge X -> Y the full
\* definition of Y is emitted before the full definition of X, whatever the
\* order of the container.
C1_StrongOrder ==
    pc = "done" => \A x, y \in Ids : ByValueMember(x, y) => DefBefore(y, x)

\* a by-value chain a -> b -> c listed in the order a, b, c was emitted c, b, a
C1_Witness ==
    /\ pc = "done"
    /\ \E a, b, c \in Ids :
          /\ a < b /\ b < c
          /\ ByValueMember(a, b) /\ ByValueMember(b, c)
          /\ DefBefore(c, b) /\ DefBefore(b, a)

\* ------------------------------------------------------------------------ C2
\* C2: the render fails with the cyclic-dependency error exactly when the
\* by-value edges alone contain a cycle (self-loops included); cycles through
\* a pointer edge never make it fail.
C2_ErrorIffStrongCycle ==
    Terminated => ((pc = "error") <=> StrongCycle)

\* a cycle through a pointer edge, and a by-value edge, rendered without error
C2_Witness ==
    /\ pc = "done"
    /\ \E x, y \in Ids : x # y /\ PointerMember(x, y) /\ StrongPath(y, x, NumElems)

\* ------------------------------------------------------------------------ C3
\* C3: on a successful render every pointer edge X -> Y is satisfied: Y is
\* fully defined before X, or a forward declaration of Y is emitted before
\* all the definitions.
C3_WeakSatisfied ==
    pc = "done" =>
        \A x, y \in Ids : PointerMember(x, y) => DefBefore(y, x) \/ ForwardDeclared(y)

\* a pointer edge that the order does not honour and a forward declaration covers
C3_Witness ==
    /\ pc = "done"
    /\ \E x, y \in Ids :
          x # y /\ PointerMember(x, y) /\ DefBefore(x, y) /\ ForwardDeclared(y)

\* ------------------------------------------------------------------------ C4
\* C4: the emitted order is the forward declarations, then the sorted
\* declarations, then exactly one blank-line node, then the elements of the
\* container that are not sorted declarations, in their original order.
C4_FinalOrder ==
    pc = "done" =>
        LET nf == Cardinality(forward_decl_type_set)
            ns == Len(sorted_node_list)
        IN  /\ Len(emitted) >= nf + ns + 1
            /\ \A k \in 1..nf : emitted[k].t = "fwd"
            /\ {emitted[k].id : k \in 1..nf} = forward_decl_type_set
            /\ \A k \in 1..ns : emitted[nf + k] = ObjRef(sorted_node_list[k])
            /\ emitted[nf + ns + 1] = NewLine
            /\ Cardinality(At(NewLine)) = 1
            /\ SubSeq(emitted, nf + ns + 2, Len(emitted))
                 = Filter(CallerList,
                          {r \in Range(CallerList) : r.id \notin Range(sorted_node_list)})

\* all four parts are present, and two elements remain after the separator
C4_Witness ==
    /\ pc = "done"
    /\ forward_decl_type_set # {}
    /\ sorted_node_list # <<>>
    /\ Len(emitted) >= Cardinality(forward_decl_type_set) + Len(sorted_node_list) + 3

\* ------------------------------------------------------------------------ C5
\* C5: rendering never changes the element sequence of the container the
\* caller holds, whether the render returns or fails.
C5_ContainerUnchanged ==
    [][lists'[self_node_list'] = lists[self_node_list]]_vars

\* the render emitted another order than the container's, which is intact
C5_Witness ==
    /\ pc = "done"
    /\ forward_decl_type_set # {}
    /\ lists[self_node_list] = CallerList
    /\ lists[copy_node_list] # CallerList

\* ------------------------------------------------------------------------ C6
\* the sorted declarations, as emitted: the definitions before the separator
EmittedSorted == {emitted[k].id : k \in {j \in 1..Len(emitted) :
                    emitted[j].t = "obj" /\ \E n \in At(NewLine) : j < n}}

\* the elements emitted after the separator
EmittedRemaining ==
    IF At(NewLine) = {} THEN <<>>
    ELSE SubSeq(emitted, (CHOOSE n \in At(NewLine) : TRUE) + 1, Len(emitted))

\* C6: without any dependency edge the elements are emitted in the
\* container's order; in general only declarations that are the source or the
\* target of an edge are moved to the sorted prefix, and a declaration without
\* edge stays among the remaining elements, in its original relative position.
C6_NoEdgeStays ==
    pc = "done" =>
        /\ \A i \in EmittedSorted : HasEdge(i)
        /\ \A i \in Ids : ~HasEdge(i) => ObjRef(i) \in Range(EmittedRemaining)
        /\ EmittedRemaining = Filter(CallerList, Range(EmittedRemaining))
        /\ (\A i \in Ids : ~HasEdge(i)) => emitted = <<NewLine>> \o CallerList

\* a declaration without edge stayed in place while a later one was moved
C6_Witness ==
    /\ pc = "done"
    /\ \E i, j \in Decls :
          /\ i < j
          /\ ~HasEdge(i) /\ HasEdge(j)
          /\ j \in EmittedSorted
          /\ ObjRef(i) \in Range(EmittedRemaining)

\* ------------------------------------------------------------------------ C7
\* the container holds exactly the two declarations a and b, and its edges are
\* exactly those of a two-element cycle with a pointer edge
MutualPointerPair(a, b) ==
    /\ a # b /\ Decls = {a, b}
    /\ PointerMember(a, b) /\ PointerMember(b, a)
    /\ ~PointerMember(a, a) /\ ~PointerMember(b, b)
    /\ \A x, y \in Ids : ~ByValueMember(x, y)

ValuePointerPair(a, b) ==
    /\ a # b /\ Decls = {a, b}
    /\ ByValueMember(a, b) /\ PointerMember(b, a)
    /\ \A x, y \in Ids : ByValueMember(x, y) => x = a /\ y = b
    /\ \A x, y \in Ids : PointerMember(x, y) => x = b /\ y = a

\* C7: a container of two declarations that form a cycle with at least one
\* pointer edge renders, in either order, with exactly one forward
\* declaration and each full definition exactly once, a by-value dependency
\* before its dependent.
C7_PairCycle ==
    \A a, b \in Ids :
        (Terminated /\ (MutualPointerPair(a, b) \/ ValuePointerPair(a, b))) =>
            /\ pc = "done"
            /\ Cardinality({k \in 1..Len(emitted) : emitted[k].t = "fwd"}) = 1
            /\ Cardinality(At(ObjRef(a))) = 1
            /\ Cardinality(At(ObjRef(b))) = 1
            /\ ByValueMember(a, b) => DefBefore(b, a)

\* the pair "Node contains Edge, Edge points to Node", listed Edge first
C7_Witness ==
    /\ pc = "done"
    /\ \E a, b \in Ids : b < a /\ ValuePointerPair(a, b) /\ ForwardDeclared(a)

\* ------------------------------------------------------------------------ C8
\* the names of declarations found in the arguments of an exception
NamesCarried(e) == {i \in Ids : NamePool[i] \in Range(e.args)}

C9_OnlyNecessary ==
    pc = "done" =>
        \A t \in Ids : At(forward_decl(t)) # {} =>
            \E x \in Ids : PointerMember(x, t) /\ (x = t \/ DefBefore(x, t))

\* ----------------------------------------------------------------------- C10
\* C10: inline_str terminates, by returning or by raising, whatever cycles
\* and rollbacks the graph contains; the recursion is never deeper than the
\* number of declarations and a by-value cycle ends in the error.
C10_Terminates ==
    /\ (pc = "sort") ~> Terminated
    /\ [](Len(stack) <= NumElems)
    /\ [](Terminated /\ StrongCycle => pc = "error")

\* a render that met a by-value cycle and a pointer cycle has ended
C10_Witness ==
    /\ Terminated
    /\ StrongCycle
    /\ \E x, y \in Ids : x # y /\ PointerMember(x, y) /\ PointerMember(y, x)

\* ----------------------------------------------------------------------- C11
\* the declarations whose forward declaration is emitted, in emitted order
EmittedForward ==
    LET f == Filter(emitted, {r \in Range(emitted) : r.t = "fwd"})
    IN  [k \in 1..Len(f) |-> f[k].id]

\* C11: the forward declarations are emitted in discovery order: a target
\* recorded earlier by the traversal has its forward declaration earlier in
\* the output.
C11_DiscoveryOrder ==
    pc = "done" => EmittedForward = discovery

Conforms(self, node_list) ==
    \A i \in 1..Len(node_list) : isinstance(node_list[i], self.node_classinfo)

\* C13: after the construction and after any sequence of mutations, every
\* element of the container satisfies the container's type constraint.
C13_TypeConstraint == Conforms(container, container.node_list)

\* ----------------------------------------------------------------------- C14
\* the calls that store values in the container
StoringCalls == {"append", "__iadd__", "extend", "insert", "__setitem__"}

\* the nodes that the factory built during the last call
IsBuiltByCall(x) ==
    /\ x.k = "node"
    /\ Len(x.id) > Len(container.id) + 1
    /\ SubSeq(x.id, 1, Len(container.id) + 1) = Append(container.id, call.n)

\* C14: the output of the factory is checked against the type constraint of
\* the container: a storing call never leaves in the container a node that
\* the factory built and that is not an instance of node_classinfo.
C14_FactoryOutputChecked ==
    call.op \in StoringCalls =>
        \A i \in 1..Len(container.node_list) :
            IsBuiltByCall(container.node_list[i]) =>
                isinstance(container.node_list[i], container.node_classinfo)

\* ----------------------------------------------------------------------- C15
\* C15: a call of append, +=, extend or insert that raises leaves the element
\* sequence of the container as it was before the call.
C15_NoPartialEffect ==
    (call.op \in {"append", "__iadd__", "extend", "insert"} /\ call.exc # NoExc) =>
        container.node_list = call.before

\* ----------------------------------------------------------------------- C16
\* the number of elements before the one that list.insert(index, elem) adds
\* to a list of n elements
InsertPosition(index, n) ==
    IF index < 0 THEN (IF index + n < 0 THEN 0 ELSE index + n)
    ELSE (IF index > n THEN n ELSE index)

\* the element x is the value v, or the node the factory built from v
IsCoerced(x, v) == x = v \/ (x.k = "node" /\ x.tokens = listify(v))

\* the list now is the list before with the items coerced from values
\* inserted as one block after its first pos elements
InsertedAt(before, now, pos, values) ==
    /\ Len(now) = Len(before) + Len(values)
    /\ SubSeq(now, 1, pos) = SubSeq(before, 1, pos)
    /\ \A t \in 1..Len(values) : IsCoerced(now[pos + t], values[t])
    /\ SubSeq(now, pos + Len(values) + 1, Len(now)) = SubSeq(before, pos + 1, Len(before))

\* C16: insert(index, values) inserts the coerced items as one contiguous
\* block, in the order given, at the position that a single-item insert at
\* index uses, whatever the sign of index; the elements already present keep
\* their relative order.
C16_InsertContiguous ==
    (call.op = "insert" /\ call.exc = NoExc) =>
        InsertedAt(call.before, container.node_list,
                   InsertPosition(call.index, Len(call.before)), listify(call.value))

\* ----------------------------------------------------------------------- C17
\* the node lists of the containers of the state, and of the container that
\* the last call returned
NodeLists ==
    [id \in {container.id, Other.id, call.result.id} |->
        IF id = container.id THEN container.node_list
        ELSE IF id = Other.id THEN Other.node_list
        ELSE call.result.node_list]

\* the leaves of a value in the order in which its render visits them: the
\* elements of a container, the tokens of a token list
RECURSIVE Leaves(_, _), LeavesOfAll(_, _)
Leaves(value, node_lists) ==
    IF value.k = "str" THEN <<value.s>>
    ELSE IF value.k # "node" THEN <<>>
    ELSE IF isinstance(value, {"NodeContainer"}) THEN LeavesOfAll(node_lists[value.id], node_lists)
    ELSE LeavesOfAll(value.tokens, node_lists)
LeavesOfAll(values, node_lists) ==
    IF values = <<>> THEN <<>>
    ELSE Leaves(Head(values), node_lists) \o LeavesOfAll(Tail(values), node_lists)

\* the container that the last call returned is a new TokenListContainer in
\* which left comes before right
Concatenates(left, right) ==
    /\ call.exc = NoExc
    /\ call.result.cls = "TokenListContainer"
    /\ call.result.id \notin {container.id, Other.id}
    /\ Leaves(AsNode(call.result), NodeLists) =
           Leaves(left, NodeLists) \o Leaves(right, NodeLists)
    /\ container.node_list = call.before

\* the last call appended to the container the items coerced from values
Appended(values) ==
    /\ Len(container.node_list) = Len(call.before) + Len(values)
    /\ SubSeq(container.node_list, 1, Len(call.before)) = call.before
    /\ \A t \in 1..Len(values) :
          IsCoerced(container.node_list[Len(call.before) + t], values[t])

\* C17: a + b and b + a return a new TokenListContainer in which the left
\* operand comes before the right operand, and leave the operands as they
\* were; a += b appends the coerced items of b after the elements of a, in
\* order, and a keeps its class, its type constraint and its identity.
C17_Concatenation ==
    [][ /\ call'.op = "__add__" => Concatenates(AsNode(container), call.value)'
        /\ call'.op = "__radd__" => Concatenates(call.value, AsNode(container))'
        /\ (call'.op = "__iadd__" /\ call'.exc = NoExc) =>
              /\ Appended(listify(call.value))'
              /\ call'.result = AsNode(container)
              /\ container'.cls = container.cls
              /\ container'.id = container.id
              /\ container'.node_classinfo = container.node_classinfo
              /\ container'.node_factory = container.node_factory ]_vars

\* a container of two elements or more was the right operand of + with
\* another container
C17_Witness ==
    /\ call.op = "__radd__"
    /\ call.value = AsNode(Other)
    /\ Len(container.node_list) >= 2
    /\ call.exc = NoExc

\* ----------------------------------------------------------------------- C18
\* the sequence s repeated n times, element for element
Repeated(s, n) == [i \in 1..(n * Len(s)) |-> s[((i - 1) % Len(s)) + 1]]

\* C18: c * N and N * c return a new container of the class and constraint of
\* c whose elements are those of c repeated N times (none for N = 0, the same
\* objects N * len(c) times for N >= 1) and leave c as it was; c *= N gives c
\* itself that sequence.
C18_Repetition ==
    /\ call.op \in {"__mul__", "__rmul__"} =>
          /\ call.exc = NoExc
          /\ call.result.id # container.id
          /\ call.result.cls = container.cls
          /\ call.result.node_classinfo = container.node_classinfo
          /\ call.result.node_factory = container.node_factory
          /\ call.result.node_list = Repeated(call.before, call.index)
          /\ Len(call.result.node_list) = call.index * Len(call.before)
          /\ container.node_list = call.before
    /\ call.op = "__imul__" =>
          /\ call.exc = NoExc
          /\ call.result = AsNode(container)
          /\ container.node_list = Repeated(call.before, call.index)

\* a container of two elements or more was multiplied by two, from the right
C18_Witness ==
    /\ call.op = "__rmul__"
    /\ call.index = 2
    /\ Len(call.before) >= 2
    /\ call.result.node_list # call.before

\* ----------------------------------------------------------------------- C19
\* C19: after append(x) the container holds the coerced form of every item of
\* x after the elements it had, which keep their positions: an item that
\* satisfies the type constraint is stored as the same object, another one as
\* the result of the factory, the last item is the last element, and the
\* length grows by the number of items.
C19_Append ==
    (call.op = "append" /\ call.exc = NoExc) =>
        LET values == listify(call.value)
            before == Len(call.before)
            now    == container.node_list
        IN  /\ Len(now) = before + Len(values)
            /\ SubSeq(now, 1, before) = call.before
            /\ \A t \in 1..Len(values) :
                  /\ isinstance(values[t], container.node_classinfo) => now[before + t] = values[t]
                  /\ ~isinstance(values[t], container.node_classinfo) =>
                        /\ now[before + t] =
                              node_factory(container, values[t],
                                           container.id \o <<call.n, t>>).result
                        /\ now[before + t] \notin Range(call.before)
            /\ values # <<>> =>
                  now[Len(now)] = Coerce(container, values[Len(values)],
                                         container.id \o <<call.n, Len(values)>>).result

\* a node that satisfies the type constraint was appended to a container that
\* had elements, and is its last element
C19_Witness ==
    /\ call.op = "append"
    /\ call.exc = NoExc
    /\ call.value = Elem
    /\ call.before # <<>>
    /\ container.node_list[Len(container.node_list)] = Elem

\* ----------------------------------------------------------------------- C20
\* C20: the freestanding rendering of a node of any kind is empty when its
\* inline rendering is empty, and is otherwise a newline, the indentation and
\* the inline rendering: never a bare newline or a bare terminator.
C20_SuppressIfEmpty ==
    call.op = "freestanding_str" =>
        IF call.result.inline_str = <<>> THEN call.result.freestanding_str = <<>>
        ELSE call.result.freestanding_str =
                 <<"\n">> \o Indentation__str__(call.index) \o call.result.inline_str

\* ----------------------------------------------------------------------- C21
\* the text of the elements of the container at the level of the last call:
\* for each element in sequence order, the freestanding text of its comment,
\* then its own
RECURSIVE Concatenated(_, _)
Concatenated(node_list, level) ==
    IF node_list = <<>> THEN <<>>
    ELSE Com_freestanding_str(Head(node_list).comment, level)
         \o freestanding_str(Head(node_list), level,
                             [id \in {Other.id} |-> Other.node_list])
         \o Concatenated(Tail(node_list), level)

\* the pieces of s before its first piece that is neither blank nor a newline
RECURSIVE LeadingBlank(_)
LeadingBlank(s) ==
    IF s = <<>> \/ ~(IsBlank(Head(s)) \/ Head(s) = "\n") THEN <<>>
    ELSE <<Head(s)>> \o LeadingBlank(Tail(s))

NewLines(s) == Cardinality({i \in 1..Len(s) : s[i] = "\n"})

\* C21: the inline text of a container is the text of its elements in
\* sequence order, each comment right before its element, without a prefix of
\* blank lines: a suffix that keeps everything from the first non-blank
\* character on and has at most one newline before it.
C21_StripLeadingBlankLines ==
    (call.op = "freestanding_str" /\ call.value = AsNode(container)) =>
        LET full == Concatenated(container.node_list, call.index)
            kept == call.result.inline_str
            cut  == Len(full) - Len(kept)
        IN  /\ cut >= 0
            /\ kept = SubSeq(full, cut + 1, Len(full))
            /\ cut <= Len(LeadingBlank(full))
            /\ NewLines(LeadingBlank(kept)) <= 1

\* a container whose elements begin with more than one blank line, and one of
\* which has a comment, was rendered
C21_Witness ==
    /\ call.op = "freestanding_str"
    /\ call.value = AsNode(container)
    /\ NewLines(LeadingBlank(Concatenated(container.node_list, call.index))) >= 3
    /\ \E i \in 1..Len(container.node_list) : container.node_list[i].comment # <<>>
    /\ call.result.inline_str # <<>>

\* ----------------------------------------------------------------------- C22
\* C22: an Indentation prints its unit string max(level, 0) times; after any
\* calls of indent and dedent its level is the initial level plus the indents
\* minus the dedents; a negative level prints the empty string; and
\* indent(n) followed by dedent(n) gives back the level before the indent.
C22_IndentationLevel ==
    LET shown == IF indentation_level > 0 THEN indentation_level ELSE 0
    IN  /\ call.exc = NoExc
        /\ Len(call.result) = shown
        /\ \A k \in 1..shown : call.result[k] = indentation_string
        /\ indentation_level = call.value.initial + call.value.total
        /\ (call.op = "dedent" /\ call.value.last.op = "indent"
                /\ call.value.last.index = call.index) =>
              indentation_level = call.value.last.before

\* indent(n) then dedent(n) on an Indentation of negative level
C22_Witness ==
    /\ call.op = "dedent"
    /\ call.value.last.op = "indent"
    /\ call.value.last.index = call.index
    /\ indentation_level < 0
    /\ call.result = <<>>

\* ----------------------------------------------------------------------- C23
\* C23: when the visit of a pointer dependency fails, the sorted list, the
\* in-progress marks, the done marks and the set of forward-declaration
\* targets are put back to their values from just before the attempt, and
\* then the target of the failed dependency is added to the set.
C23_RollbackRestoresAll ==
    [][ (pc = "sort" /\ exc # NoExc /\ stack # <<>> /\ Top.wi > 0) =>
            /\ sorted_node_list' = Top.bk.sorted
            /\ temporary_marked' = Top.bk.temp
            /\ permanently_marked' = Top.bk.perm
            /\ forward_decl_type_set' =
                  Top.bk.fwd \cup {weak_dependency_dict[Top.node][Top.wi]} ]_vars

\* ------------------------------------------- names and member types as text
\* rendered names of declarations: two plain identifiers, and the identifier
\* "structure", whose first letters spell a keyword
TextNames == {<<"A">>, <<"B">>, <<"struct", "ure">>}

\* member.type.inline_str() of a member declared with the keyword of a struct
KeywordText(name) == <<"struct", " ">> \o name

\* member.type.inline_str() of a pointer member declared with the keyword of a union
KeywordPointerText(name) == <<"union", " ">> \o PointerText(name)

\* the types a member is declared with: the forms above for each name, and a
\* type that is not a declared struct/union
MemberTexts ==
    UNION {{ByValueText(n), PointerText(n), KeywordText(n), KeywordPointerText(n)} :
              n \in TextNames}
        \cup {<<"int">>}

\* C.py 1110, 1120: Struct(name, member_list) / Union(name, member_list):
\* declarations with any of the names, two of them may have the same one; at
\* most one member each, and one declaration without members
NamedObjs ==
    {o \in [Ids -> [cls : {"Struct", "Union"}, name : TextNames,
                    members : {<<>>} \cup {<<t>> : t \in MemberTexts}]] :
        /\ \A i \in Ids : o[i].cls = DeclClass(i)
        /\ \E i \in Ids : o[i].members = <<>>}

\* OrderedTypeContainer(node_list) on the elements of one of the given
\* functions, and an Indentation object of the given level
OrderedInitOf(objects, level) ==
    /\ objs \in objects
    /\ lists = << [i \in Ids |-> ObjRef(i)] >>
    /\ self_node_list = 1
    /\ copy_node_list = 0
    /\ pc = "idle"
    /\ type_dict = <<>>
    /\ dependency_dict = [i \in Ids |-> <<>>]
    /\ weak_dependency_dict = [i \in Ids |-> <<>>]
    /\ types_to_sort_list = <<>>
    /\ sorted_node_list = <<>>
    /\ temporary_marked = {}
    /\ permanently_marked = {}
    /\ forward_decl_type_set = {}
    /\ stack = <<>>
    /\ ti = 0
    /\ exc = NoExc
    /\ emitted = <<>>
    /\ err = NoExc
    /\ discovery = <<>>
    /\ set_iteration = {}
    /\ indentation_level = level
    /\ output = <<>>
    /\ previous = NoRender
    /\ container = NoContainer
    /\ call = NoCall

\* OrderedTypeContainer(node_list) on such declarations
NamesInit == OrderedInitOf(NamedObjs, 0)

\* the container is rendered as it was built
NamesNext ==
    \/ Begin
    \/ SortStep

NamesSpec == NamesInit /\ [][NamesNext]_vars

\* ----------------------------------------------------------------------- C24
\* the declaration that type_dict maps a rendered name to
Declared(name) == type_dict[Lookup(type_dict, name)].item

\* C24: a by-value member whose type text is exactly the name of a declared
\* struct/union yields a strong edge to that declaration, whatever the name
\* is.
C24_ExactNameStrongEdge ==
    pc # "idle" =>
        \A d \in DictItems(type_dict) : \A k \in 1..Len(objs[d].members) :
            HasKey(type_dict, objs[d].members[k]) =>
                \E j \in 1..Len(dependency_dict[d]) :
                    dependency_dict[d][j] = Declared(objs[d].members[k])

\* ----------------------------------------------------------------------- C25
\* the declaration whose visit the traversal starts first (C.py 389-390)
FirstVisited == types_to_sort_list[1]

\* C25 as stated: in a mutual-pointer pair the forward declaration is for the
\* declaration that the traversal visits second.
C25_Original ==
    \A a, b \in Ids :
        (pc = "done" /\ MutualPointerPair(a, b) /\ FirstVisited = a) =>
            EmittedForward = <<b>>

\* C25: in a mutual-pointer pair the single forward declaration is for the
\* declaration whose visit started first: the visit of the second one meets it
\* in progress.  The second declaration is defined first, then the first one.
C25_ForwardDeclaresFirstVisited ==
    \A a, b \in Ids :
        (Terminated /\ MutualPointerPair(a, b) /\ FirstVisited = a) =>
            /\ pc = "done"
            /\ EmittedForward = <<a>>
            /\ DefBefore(b, a)

\* a mutual-pointer pair was rendered: the declaration visited first is
\* forward-declared and defined after the other one
C25_Witness ==
    /\ pc = "done"
    /\ \E a, b \in Ids :
          /\ MutualPointerPair(a, b) /\ FirstVisited = a
          /\ EmittedForward = <<a>>
          /\ sorted_node_list = <<b, a>>

\* ----------------------------------------------------------------------- C26
\* e and l render the same name, e comes earlier in the container, and l is
\* the last declaration with that name
Collision(e, l) ==
    /\ e < l
    /\ objs[e].name = objs[l].name
    /\ \A j \in Ids : j > l => objs[j].name # objs[l].name

\* the targets of the edges recorded for d
Targets(d) == Range(dependency_dict[d]) \cup Range(weak_dependency_dict[d])

\* a path of recorded by-value edges from x to y whose inner nodes are all <= k
RECURSIVE RecordedPath(_, _, _)
RecordedPath(x, y, k) ==
    IF k = 0 THEN y \in Range(dependency_dict[x])
    ELSE \/ RecordedPath(x, y, k - 1)
         \/ RecordedPath(x, k, k - 1) /\ RecordedPath(k, y, k - 1)

\* C26: when two declarations render the same name the name map keeps the
\* later one: every edge recorded for that name goes to the later
\* declaration, no edge is recorded from the earlier one, the render fails
\* only on a cycle of recorded by-value edges, and the earlier declaration is
\* emitted once, among the remaining elements.
C26_LastWriteWins ==
    \A e, l \in Ids :
        (pc # "idle" /\ Collision(e, l)) =>
            /\ HasKey(type_dict, objs[l].name) /\ Declared(objs[l].name) = l
            /\ \A d \in Ids : e \notin Targets(d)
            /\ Targets(e) = {}
            /\ e \notin Range(types_to_sort_list)
            /\ pc = "error" => \E x \in Ids : RecordedPath(x, x, NumElems)
            /\ pc = "done" =>
                  /\ ObjRef(e) \in Range(EmittedRemaining)
                  /\ Cardinality(At(ObjRef(e))) = 1

\* two declarations have the same name; a third one has a member of that
\* name, and the earlier of the two has a member whose type is the third one
C26_Witness ==
    /\ pc = "done"
    /\ \E e, l, d \in Ids :
          /\ Collision(e, l) /\ d \notin {e, l}
          /\ objs[d].members = <<objs[l].name>>
          /\ dependency_dict[d] = <<l>>
          /\ objs[e].members = <<objs[d].name>>
          /\ DefBefore(l, d) /\ DefBefore(d, e)

\* ----------------------------------------------------------------------- C27
NoDuplicates(s) == \A i, j \in 1..Len(s) : i # j => s[i] # s[j]

\* C27: on a successful render every element of the container is emitted
\* exactly once, the sorted list holds no declaration twice, and no element is
\* both in the sorted list and among the remaining elements.
C27_NothingLostOrDuplicated ==
    pc = "done" =>
        /\ \A i \in Ids : Cardinality(At(ObjRef(i))) = 1
        /\ NoDuplicates(sorted_node_list)
        /\ \A i \in Range(sorted_node_list) : ObjRef(i) \notin Range(EmittedRemaining)
        /\ Len(emitted) = NumElems + 1 + Len(EmittedForward)

\* a declaration with two edges is listed twice for the sort, it is reached
\* again through another declaration, and a rollback took place
C27_Witness ==
    /\ pc = "done"
    /\ forward_decl_type_set # {}
    /\ \E i, j \in Ids :
          /\ i # j
          /\ Len(objs[i].members) >= 2
          /\ Cardinality({k \in 1..Len(types_to_sort_list) : types_to_sort_list[k] = i}) >= 2
          /\ AnyMember(j, i)
          /\ Len(sorted_node_list) = NumElems

\* ----------------------------------------------------------------------- C28
\* C28: a declaration with a pointer member to its own type, and no by-value
\* cycle in the container: the render succeeds, the type is forward-declared
\* once and defined once, after its forward declaration; it is not left in
\* progress, and a declaration that has it as a member is defined after it.
C28_WeakSelfEdge ==
    \A x \in Ids :
        (Terminated /\ PointerMember(x, x) /\ ~StrongCycle) =>
            /\ pc = "done"
            /\ Cardinality(At(forward_decl(x))) = 1
            /\ Cardinality(At(ObjRef(x))) = 1
            /\ ForwardDeclared(x)
            /\ temporary_marked = {}
            /\ x \in permanently_marked
            /\ \A d \in Ids : (d # x /\ ByValueMember(d, x)) => DefBefore(x, d)

\* a linked-list node was rendered, and a declaration that holds it by value
\* was sorted after it
C28_Witness ==
    /\ pc = "done"
    /\ \E x, d \in Ids :
          /\ x # d
          /\ PointerMember(x, x)
          /\ objs[d].members = <<objs[x].name>>
          /\ d < x
          /\ DefBefore(x, d)
          /\ At(forward_decl(x)) # {}

\* ------------------------------------------------ blocks around a container
\* C.py 258, 512: the constructs that indent what they hold
BlockClasses == {"BlockStmt", "Switch"}

\* the number of idt.indent() calls in effect when the nested element is
\* rendered: one in BlockStmt.inline_str (C.py 274), two in Switch.inline_str
\* (C.py 557 and 566)
Indents(cls) == IF cls = "Switch" THEN 2 ELSE 1

RECURSIVE IndentTimes(_, _)
IndentTimes(level, n) == IF n = 0 THEN level ELSE IndentTimes(indent(level, 1), n - 1)

RECURSIVE DedentTimes(_, _)
DedentTimes(level, n) == IF n = 0 THEN level ELSE DedentTimes(dedent(level, 1), n - 1)

\* C.py 1108-1119: declarations with one member at most, by value or pointer
BlockObjs ==
    {o \in [Ids -> [cls : {"Struct", "Union"}, name : {NameOf(i) : i \in Ids},
                    members : {<<>>} \cup {<<ByValueText(NameOf(j))>> : j \in Ids}
                                     \cup {<<PointerText(NameOf(j))>> : j \in Ids}]] :
        \A i \in Ids : o[i].name = NameOf(i) /\ o[i].cls = DeclClass(i)}

\* the levels of the Indentation object that the caller renders with
BlockLevels == {0, 1}

\* an OrderedTypeContainer of such declarations, to be held by a block
BlockInit == \E level \in BlockLevels : OrderedInitOf(BlockObjs, level)

\* the state that entering or leaving a block leaves alone
blockFrame ==
    <<objs, lists, self_node_list, copy_node_list, pc, type_dict,
      dependency_dict, weak_dependency_dict, types_to_sort_list,
      sorted_node_list, temporary_marked, permanently_marked,
      forward_decl_type_set, stack, ti, exc, emitted, err,
      discovery, set_iteration, output, previous, container>>

\* C.py 264-274, 554-566: inline_str(idt) of a block is called, by the caller
\* with its Indentation object or by the block that holds it with the same
\* object (core.py 149-160: make_idt returns the object it is given); the
\* block indents and starts the render of its element.  call.value lists the
\* blocks whose inline_str is running, call.before is the level at the call of
\* the outermost one.
BlockEnter ==
    /\ pc = "idle"
    /\ \/ call = NoCall
       \/ call.op = "inline_str" /\ Len(call.value) < MaxDepth
    /\ \E cls \in BlockClasses :
          /\ indentation_level' = IndentTimes(indentation_level, Indents(cls))
          /\ call' = [n |-> call.n + 1, op |-> "inline_str", index |-> 0,
                      value |-> IF call = NoCall THEN <<cls>> ELSE Append(call.value, cls),
                      before |-> IF call = NoCall THEN indentation_level ELSE call.before,
                      exc |-> NoExc, result |-> <<>>]
    /\ UNCHANGED blockFrame

\* C.py 275-279, 568-590: the render of the element has returned; the
\* innermost block dedents and returns its text
BlockReturn ==
    /\ pc = "done"
    /\ call.op = "inline_str"
    /\ indentation_level' = DedentTimes(indentation_level, Indents(call.value[Len(call.value)]))
    /\ call' = [call EXCEPT !.value = SubSeq(@, 1, Len(@) - 1),
                            !.op = IF Len(call.value) = 1 THEN "returned" ELSE @]
    /\ UNCHANGED blockFrame

\* C.py 275, 567: the render of the element raises inside super().inline_str
\* or stmt.inline_str; no block has a handler or a finally clause, the
\* exception leaves every running inline_str
BlockRaise ==
    /\ pc = "error"
    /\ call.op = "inline_str"
    /\ call' = [call EXCEPT !.op = "raised", !.exc = err]
    /\ UNCHANGED indentation_level
    /\ UNCHANGED blockFrame

BlockNext ==
    \/ BlockEnter
    \/ Begin
    \/ SortStep
    \/ BlockReturn
    \/ BlockRaise

BlockSpec == BlockInit /\ [][BlockNext]_vars

\* ----------------------------------------------------------------------- C29
\* C29: when the render of a block construct, at any depth of nesting, has
\* returned or has raised, the level of the caller's Indentation object is the
\* level it had before the call.
C29_LevelUnchangedOnExit ==
    call.op \in {"returned", "raised"} => indentation_level = call.before

\* ----------------------------------------------------------------------- C30
\* the declarations whose visit is running
OnStack == {stack[k].node : k \in 1..Len(stack)}

\* position of a declaration in the sorted list
SortedAt(i) == CHOOSE k \in 1..Len(sorted_node_list) : sorted_node_list[k] = i

\* C30: while the sort runs and no exception is on its way (in particular
\* when a visit has returned and when a rollback has completed) the done set
\* is the set of the elements of the sorted list, the list holds no
\* declaration twice, the in-progress set is the set of the declarations on
\* the call stack, no declaration is both done and in progress, and every
\* recorded by-value dependency of a sorted declaration is earlier in the list.
C30_SortBookkeeping ==
    (pc = "sort" /\ exc = NoExc) =>
        /\ permanently_marked = Range(sorted_node_list)
        /\ NoDuplicates(sorted_node_list)
        /\ temporary_marked = OnStack
        /\ temporary_marked \cap permanently_marked = {}
        /\ \A i \in Range(sorted_node_list) : \A d \in Range(dependency_dict[i]) :
              d \in Range(sorted_node_list) /\ SortedAt(d) < SortedAt(i)

\* a rollback has completed inside a visit that is still running, and the
\* sorted list holds a declaration after its by-value dependency
C30_Witness ==
    /\ pc = "sort" /\ exc = NoExc
    /\ stack # <<>>
    /\ forward_decl_type_set # {}
    /\ Top.wi > 0
    /\ \E i \in Range(sorted_node_list) : dependency_dict[i] # <<>>

====
